---- MODULE Spec2Model ----
(***************************************************************************)
(* Type-level model of the After Effects layer declarations.               *)
(*                                                                         *)
(* The declarations have no run-time behaviour: what "runs" is the type    *)
(* checker, which (1) instantiates the NumericRange aliases of             *)
(* primitives.ts by unfolding the recursive conditional type one step at a *)
(* time and (2) relates the type of a supplied expression to the declared  *)
(* type of an attribute or parameter.  The state machine below is that     *)
(* evaluation; the enumerations and the attribute table are transcribed    *)
(* from the layer declarations.                                            *)
(***************************************************************************)
EXTENDS Integers, Sequences, FiniteSets

VARIABLES
    program,    \* what is compiled: "declarations" or "adhoc" (one NumericRange<S, E>)
    indexRule,  \* what ARR[i] is for a negative i: "undefined" or "element"
    queue,      \* aliases whose NumericRange instantiation is still to be done
    cur,        \* name of the alias being instantiated ("" when none)
    START,      \* type argument START of the instantiation in progress
    END,        \* type argument END of the instantiation in progress
    ARR,        \* type argument ARR: a tuple of 1s, its length is the counter
    ACC,        \* type argument ACC: a union of number literal types, as a set
    steps,      \* recursive references unfolded for the alias in progress
    inst,       \* finished instantiations: alias name -> set of number literals
    pc,         \* "next", "eval", "check", "lookup", "checked", "too_deep"
    site,       \* attribute/parameter the checked expression is supplied to
    target,     \* name of the type the expression is related to
    expr,       \* the supplied expression
    verdict,    \* "none", "accepted", "rejected"
    recv,       \* class of the object whose member is looked up ("" when none)
    member,     \* name of the member looked up
    access,     \* "read", "write" or "redeclare" ("" when none)
    owner,      \* class whose own declarations the lookup is looking at
    hops,       \* heritage clauses the lookup has followed
    memberType  \* declared type of the member found ("" when none)

vars == <<program, indexRule, queue, cur, START, END, ARR, ACC, steps, inst,
          pc, site, target, expr, verdict, recv, member, access, owner, hops,
          memberType>>

\* the variables of the member lookup
lookupVars == <<recv, member, access, owner, hops, memberType>>

----------------------------------------------------------------------------
(* Bounds of the model. *)

\* ad-hoc upper/lower bounds tried for NumericRange<S, E> are at most this
MaxBound == 4
\* ad-hoc bounds below zero go down to -MaxNeg
MaxNeg == 2
\* the evaluation gives up after this many recursive unfoldings
MaxInstantiationDepth == 185

----------------------------------------------------------------------------
(* Number literals.  A literal is whole + tenths/10 with whole its floor,  *)
(* so 0.5 is Num(0, 5), -0.5 is Num(-1, 5) and 17 is Num(17, 0).           *)

Num(w, t) == [whole |-> w, tenths |-> t]

IntLit(k) == Num(k, 0)

IsIntLit(n) == n.tenths = 0

Tenths(n) == 10 * n.whole + n.tenths

Le(a, b) == Tenths(a) <= Tenths(b)

Lt(a, b) == Tenths(a) < Tenths(b)

\* the integers lo..hi as number literal types
IntLits(lo, hi) == { IntLit(k) : k \in lo..hi }

----------------------------------------------------------------------------
(* primitives.ts: the aliases built with NumericRange. *)

Percentage == [name |-> "Percentage", START |-> IntLit(0), END |-> IntLit(100)]

\* the alias with its upper bound mistyped
OpacityRange_UpTo99 == [name |-> "OpacityRange", START |-> IntLit(0), END |-> IntLit(99)]

OpacityRange == [name |-> "OpacityRange", START |-> IntLit(0), END |-> IntLit(100)]

\* the alias one short: NumericRange<0, 15>
LabelIndex_UpTo15 == [name |-> "LabelIndex", START |-> IntLit(0), END |-> IntLit(15)]

LabelIndex == [name |-> "LabelIndex", START |-> IntLit(0), END |-> IntLit(16)]

ColorComponent == [name |-> "ColorComponent", START |-> IntLit(0), END |-> IntLit(1)]

\* the alias widened to the half turn: NumericRange<0, 180>
ConeAngleRange_HalfTurn == [name |-> "ConeAngleRange", START |-> IntLit(0), END |-> IntLit(180)]

ConeAngleRange == [name |-> "ConeAngleRange", START |-> IntLit(1), END |-> IntLit(179)]

IORRange == [name |-> "IORRange", START |-> IntLit(1), END |-> IntLit(3)]

\* in declaration order
RangeAliases ==
    << Percentage, OpacityRange, LabelIndex, ColorComponent, ConeAngleRange, IORRange >>

RangeAliasNames == { RangeAliases[i].name : i \in 1..Len(RangeAliases) }

AliasNamed(n) == CHOOSE a \in { RangeAliases[i] : i \in 1..Len(RangeAliases) } : a.name = n

\* an instantiation NumericRange<S, E> written directly, outside any alias
AdhocName == "NumericRange<S, E>"

AdhocStarts == IntLits(-MaxNeg, MaxBound) \cup { Num(0, 5) }

AdhocEnds == IntLits(-MaxNeg, MaxBound) \cup { Num(1, 5) }

----------------------------------------------------------------------------
(* NumericRange<START, END, ARR = [], ACC = never>                         *)

\* the test written as a comparison: the length has reached or passed END
LengthExtendsEND_AtLeast(arr, end) == Le(end, IntLit(Len(arr)))

\* ARR['length'] extends END
LengthExtendsEND(arr, end) == IntLit(Len(arr)) = end

\* ARR[START] extends undefined.  An index inside the tuple yields the
\* element type 1; an index at or past the end, or a fractional one, has
\* no element and yields undefined.  For a negative index the checker
\* either yields undefined or falls back to the array element type, which
\* is never for [] (never extends undefined) and 1 otherwise.
\* (variant below: the index START taken to be inside a tuple of length START)
IndexExtendsUndefined_OffByOne(arr, start, rule) ==
    IF ~IsIntLit(start) THEN TRUE
    ELSE IF start.whole >= 0 THEN ~(start.whole <= Len(arr))
    ELSE IF rule = "undefined" THEN TRUE
    ELSE Len(arr) = 0

IndexExtendsUndefined(arr, start, rule) ==
    IF ~IsIntLit(start) THEN TRUE
    ELSE IF start.whole >= 0 THEN ~(start.whole < Len(arr))
    ELSE IF rule = "undefined" THEN TRUE
    ELSE Len(arr) = 0

\* the false branch adding the length at every step
NextACC_EveryLength(arr, start, acc, rule) == acc \cup { IntLit(Len(arr)) }

\* ARR[START] extends undefined ? ACC : ACC | ARR['length']
NextACC(arr, start, acc, rule) ==
    IF IndexExtendsUndefined(arr, start, rule) THEN acc ELSE acc \cup { IntLit(Len(arr)) }

\* the recursive reference passing ARR on unchanged
NextARR_Unchanged(arr) == arr

\* [...ARR, 1]
NextARR(arr) == Append(arr, 1)

\* the true branch without END
StopResult_WithoutEND(acc, start, end) == acc \cup { start }

\* ACC | START | END
StopResult(acc, start, end) == acc \cup { start, end }

----------------------------------------------------------------------------
(* primitives.ts: the branded fallbacks.  A branded type is                *)
(* number & { __brand: '<name>' }; lo and hi are the range its trailing    *)
(* comment documents, which nothing in the type refers to.                 *)

ApertureRange == [name |-> "ApertureRange", lo |-> Num(1, 4), hi |-> IntLit(32)]

TimeRange == [name |-> "TimeRange", lo |-> IntLit(-10800), hi |-> IntLit(10800)]

DurationRange == [name |-> "DurationRange", lo |-> IntLit(0), hi |-> IntLit(10800)]

PixelDimension == [name |-> "PixelDimension", lo |-> IntLit(1), hi |-> IntLit(30000)]

Brands == { ApertureRange, TimeRange, DurationRange, PixelDimension }

BrandNames == { b.name : b \in Brands }

BrandNamed(n) == CHOOSE b \in Brands : b.name = n

(* primitives.ts: the tuple aliases over ColorComponent. *)

Color == [name |-> "Color", elems |-> << "ColorComponent", "ColorComponent", "ColorComponent" >>]

ThreeDColorValue ==
    [name |-> "ThreeDColorValue",
     elems |-> << "ColorComponent", "ColorComponent", "ColorComponent" >>]

Tuples == { Color, ThreeDColorValue }

TupleNames == { t.name : t \in Tuples }

TupleNamed(n) == CHOOSE t \in Tuples : t.name = n

----------------------------------------------------------------------------
(* Layer declarations: the enumerations, member by member.                 *)

\* the enumeration with a member left out
AutoOrientType_WithoutCharacters ==
    << [name |-> "ALONG_PATH", code |-> 4213],
       [name |-> "CAMERA_OR_POINT_OF_INTEREST", code |-> 4214],
       [name |-> "NO_AUTO_ORIENT", code |-> 4212] >>

\* declare enum AutoOrientType (lines 32-64)
AutoOrientType ==
    << [name |-> "ALONG_PATH", code |-> 4213],
       [name |-> "CAMERA_OR_POINT_OF_INTEREST", code |-> 4214],
       [name |-> "CHARACTERS_TOWARD_CAMERA", code |-> 4215],
       [name |-> "NO_AUTO_ORIENT", code |-> 4212] >>

\* declare enum BlendingMode (lines 76-193)
BlendingMode ==
    << [name |-> "ADD", code |-> 5220],
       [name |-> "ALPHA_ADD", code |-> 5244],
       [name |-> "CLASSIC_COLOR_BURN", code |-> 5213],
       [name |-> "CLASSIC_COLOR_DODGE", code |-> 5212],
       [name |-> "CLASSIC_DIFFERENCE", code |-> 5209],
       [name |-> "COLOR", code |-> 5216],
       [name |-> "COLOR_BURN", code |-> 5227],
       [name |-> "COLOR_DODGE", code |-> 5226],
       [name |-> "DANCING_DISSOLVE", code |-> 5206],
       [name |-> "DARKEN", code |-> 5207],
       [name |-> "DARKER_COLOR", code |-> 5245],
       [name |-> "DIFFERENCE", code |-> 5223],
       [name |-> "DISSOLVE", code |-> 5205],
       [name |-> "DIVIDE", code |-> 5246],
       [name |-> "EXCLUSION", code |-> 5224],
       [name |-> "HARD_LIGHT", code |-> 5218],
       [name |-> "HARD_MIX", code |-> 5230],
       [name |-> "HUE", code |-> 5214],
       [name |-> "LIGHTEN", code |-> 5208],
       [name |-> "LIGHTER_COLOR", code |-> 5243],
       [name |-> "LINEAR_BURN", code |-> 5228],
       [name |-> "LINEAR_DODGE", code |-> 5229],
       [name |-> "LINEAR_LIGHT", code |-> 5233],
       [name |-> "LUMINESCENT_PREMUL", code |-> 5221],
       [name |-> "LUMINOSITY", code |-> 5217],
       [name |-> "MULTIPLY", code |-> 5210],
       [name |-> "NORMAL", code |-> 5204],
       [name |-> "OVERLAY", code |-> 5211],
       [name |-> "PIN_LIGHT", code |-> 5234],
       [name |-> "SATURATION", code |-> 5215],
       [name |-> "SCREEN", code |-> 5222],
       [name |-> "SILHOUETE_ALPHA", code |-> 5219],
       [name |-> "SILHOUETTE_LUMA", code |-> 5225],
       [name |-> "SOFT_LIGHT", code |-> 5231],
       [name |-> "STENCIL_ALPHA", code |-> 5235],
       [name |-> "STENCIL_LUMA", code |-> 5236],
       [name |-> "SUBTRACT", code |-> 5247],
       [name |-> "VIVID_LIGHT", code |-> 5232] >>

\* declare enum FrameBlendingType (lines 204-228)
FrameBlendingType ==
    << [name |-> "FRAME_MIX", code |-> 11213],
       [name |-> "NO_FRAME_BLEND", code |-> 11211],
       [name |-> "PIXEL_MOTION", code |-> 11212] >>

\* declare enum LayerQuality (lines 239-263)
LayerQuality ==
    << [name |-> "BEST", code |-> 10212],
       [name |-> "DRAFT", code |-> 10210],
       [name |-> "WIREFRAME", code |-> 10211] >>

\* the enumeration with a digit of BICUBIC mistyped (10211 is WIREFRAME)
LayerSamplingQuality_Mistyped ==
    << [name |-> "BICUBIC", code |-> 10211],
       [name |-> "BILINEAR", code |-> 10202] >>

\* declare enum LayerSamplingQuality (lines 274-290)
LayerSamplingQuality ==
    << [name |-> "BICUBIC", code |-> 10201],
       [name |-> "BILINEAR", code |-> 10202] >>

\* the enumeration with the codes of POINT and SPOT exchanged
LightType_Exchanged ==
    << [name |-> "AMBIENT", code |-> 4412],
       [name |-> "PARALLEL", code |-> 4414],
       [name |-> "POINT", code |-> 4413],
       [name |-> "SPOT", code |-> 4411] >>

\* declare enum LightType (lines 302-334)
LightType ==
    << [name |-> "AMBIENT", code |-> 4412],
       [name |-> "PARALLEL", code |-> 4414],
       [name |-> "POINT", code |-> 4411],
       [name |-> "SPOT", code |-> 4413] >>

\* the enumeration with the code of LUMA given to LUMA_INVERTED as well
TrackMatteType_RepeatedCode ==
    << [name |-> "ALPHA", code |-> 11312],
       [name |-> "ALPHA_INVERTED", code |-> 11313],
       [name |-> "LUMA", code |-> 11314],
       [name |-> "LUMA_INVERTED", code |-> 11314],
       [name |-> "NO_TRACK_MATTE", code |-> 11311] >>

\* declare enum TrackMatteType (lines 346-386)
TrackMatteType ==
    << [name |-> "ALPHA", code |-> 11312],
       [name |-> "ALPHA_INVERTED", code |-> 11313],
       [name |-> "LUMA", code |-> 11314],
       [name |-> "LUMA_INVERTED", code |-> 11315],
       [name |-> "NO_TRACK_MATTE", code |-> 11311] >>

\* "@remarks Integer value: N" of the members of AutoOrientType
AutoOrientTypeDoc ==
    << [name |-> "ALONG_PATH", value |-> 4213],
       [name |-> "CAMERA_OR_POINT_OF_INTEREST", value |-> 4214],
       [name |-> "CHARACTERS_TOWARD_CAMERA", value |-> 4215],
       [name |-> "NO_AUTO_ORIENT", value |-> 4212] >>

\* "@remarks Integer value: N" of the members of BlendingMode
BlendingModeDoc == << >>

\* "@remarks Integer value: N" of the members of FrameBlendingType
FrameBlendingTypeDoc ==
    << [name |-> "FRAME_MIX", value |-> 11213],
       [name |-> "NO_FRAME_BLEND", value |-> 11211],
       [name |-> "PIXEL_MOTION", value |-> 11212] >>

\* "@remarks Integer value: N" of the members of LayerQuality
LayerQualityDoc ==
    << [name |-> "BEST", value |-> 10212],
       [name |-> "DRAFT", value |-> 10210],
       [name |-> "WIREFRAME", value |-> 10211] >>

\* "@remarks Integer value: N" of the members of LayerSamplingQuality
LayerSamplingQualityDoc ==
    << [name |-> "BICUBIC", value |-> 10201],
       [name |-> "BILINEAR", value |-> 10202] >>

\* "@remarks Integer value: N" of the members of LightType
LightTypeDoc ==
    << [name |-> "AMBIENT", value |-> 4412],
       [name |-> "PARALLEL", value |-> 4414],
       [name |-> "POINT", value |-> 4411],
       [name |-> "SPOT", value |-> 4413] >>

\* "@remarks Integer value: N" of the members of TrackMatteType
TrackMatteTypeDoc ==
    << [name |-> "ALPHA", value |-> 11312],
       [name |-> "ALPHA_INVERTED", value |-> 11313],
       [name |-> "LUMA", value |-> 11314],
       [name |-> "LUMA_INVERTED", value |-> 11315],
       [name |-> "NO_TRACK_MATTE", value |-> 11311] >>

Enums ==
    [AutoOrientType |-> AutoOrientType,
     BlendingMode |-> BlendingMode,
     FrameBlendingType |-> FrameBlendingType,
     LayerQuality |-> LayerQuality,
     LayerSamplingQuality |-> LayerSamplingQuality,
     LightType |-> LightType,
     TrackMatteType |-> TrackMatteType]

EnumDocs ==
    [AutoOrientType |-> AutoOrientTypeDoc,
     BlendingMode |-> BlendingModeDoc,
     FrameBlendingType |-> FrameBlendingTypeDoc,
     LayerQuality |-> LayerQualityDoc,
     LayerSamplingQuality |-> LayerSamplingQualityDoc,
     LightType |-> LightTypeDoc,
     TrackMatteType |-> TrackMatteTypeDoc]

EnumNames == DOMAIN Enums

Members(e) == { Enums[e][i] : i \in 1..Len(Enums[e]) }

MemberNames(e) == { m.name : m \in Members(e) }

Codes(e) == { m.code : m \in Members(e) }

\* E.NAME: the code the declaration gives the member (the first declaration
\* of the name; an enum cannot declare a name twice)
CodeOf(e, n) == (CHOOSE m \in Members(e) : m.name = n).code

\* the documented values of the members that document one
DocValues(e) == { EnumDocs[e][i] : i \in 1..Len(EnumDocs[e]) }

----------------------------------------------------------------------------
(* Layer declarations: the attributes and parameters typed with a range    *)
(* alias, a tuple alias or an enumeration, each with its declared type and *)
(* what its documentation comment states about its values.                 *)

DocRange(lo, hi) == [kind |-> "range", lo |-> lo, hi |-> hi]

DocMembers(names) == [kind |-> "members", names |-> names]

NoDoc == [kind |-> "none"]

Sites ==
    { [site |-> "Layer.parent", type |-> "Layer | null", doc |-> NoDoc],
      [site |-> "Layer.setParentWithJump(newParent)", type |-> "Layer", doc |-> NoDoc],
      [site |-> "Layer.startTime", type |-> "TimeRange",
       doc |-> DocRange(IntLit(-10800), IntLit(10800))],
      [site |-> "Layer.inPoint", type |-> "TimeRange",
       doc |-> DocRange(IntLit(-10800), IntLit(10800))],
      [site |-> "Layer.outPoint", type |-> "TimeRange",
       doc |-> DocRange(IntLit(-10800), IntLit(10800))],
      [site |-> "Layer.label", type |-> "LabelIndex",
       doc |-> DocRange(IntLit(0), IntLit(16))],
      [site |-> "Layer.autoOrient", type |-> "AutoOrientType",
       doc |-> DocMembers({ "ALONG_PATH", "CAMERA_OR_POINT_OF_INTEREST",
                            "CHARACTERS_TOWARD_CAMERA", "NO_AUTO_ORIENT" })],
      [site |-> "AVLayer.frameBlendingType", type |-> "FrameBlendingType", doc |-> NoDoc],
      [site |-> "AVLayer.blendingMode", type |-> "BlendingMode", doc |-> NoDoc],
      [site |-> "AVLayer.samplingQuality", type |-> "LayerSamplingQuality", doc |-> NoDoc],
      [site |-> "AVLayer.trackMatteType", type |-> "TrackMatteType", doc |-> NoDoc],
      [site |-> "AVLayer.quality", type |-> "LayerQuality", doc |-> NoDoc],
      [site |-> "LightLayer.lightType", type |-> "LightType",
       doc |-> DocMembers({ "PARALLEL", "SPOT", "POINT", "AMBIENT" })],
      [site |-> "LayerCollection.add(duration)", type |-> "DurationRange",
       doc |-> DocRange(IntLit(0), IntLit(10800))],
      [site |-> "LayerCollection.addNull(duration)", type |-> "DurationRange",
       doc |-> DocRange(IntLit(0), IntLit(10800))],
      [site |-> "LayerCollection.addSolid(color)", type |-> "ThreeDColorValue",
       doc |-> DocRange(IntLit(0), IntLit(1))],
      [site |-> "LayerCollection.addSolid(width)", type |-> "PixelDimension",
       doc |-> DocRange(IntLit(1), IntLit(30000))],
      [site |-> "LayerCollection.addSolid(height)", type |-> "PixelDimension",
       doc |-> DocRange(IntLit(1), IntLit(30000))],
      [site |-> "LayerCollection.addSolid(duration)", type |-> "DurationRange",
       doc |-> DocRange(IntLit(0), IntLit(10800))],
      [site |-> "LayerCollection.addVerticalBoxText(width)", type |-> "PixelDimension",
       doc |-> NoDoc],
      [site |-> "LayerCollection.addVerticalBoxText(height)", type |-> "PixelDimension",
       doc |-> NoDoc] }

SiteNames == { s.site : s \in Sites }

SiteNamed(n) == CHOOSE s \in Sites : s.site = n

\* whether number literal n lies in the documented range d
InDocRange(n, d) == Le(d.lo, n) /\ Le(n, d.hi)

\* ---------------------------------------------------------------------------
\* Layer classes and the property group interfaces they refer to: the
\* heritage clause of every declaration, and the
\* LayerCollection method its documentation names as the one creating it
\* ("" where the documentation names none).

\* Variant: ShapeLayer declared over TextLayer instead of AVLayer.
Classes_ShapeOverText ==
    << [name |-> "PropertyGroup",    extends |-> "",              creator |-> ""],
       [name |-> "Collection",       extends |-> "",              creator |-> ""],
       [name |-> "_TransformGroup",  extends |-> "PropertyGroup", creator |-> ""],
       [name |-> "_TextProperties",  extends |-> "PropertyGroup", creator |-> ""],
       [name |-> "Layer",            extends |-> "PropertyGroup", creator |-> ""],
       [name |-> "AVLayer",          extends |-> "Layer",         creator |-> ""],
       [name |-> "CameraLayer",      extends |-> "Layer",         creator |-> "addCamera"],
       [name |-> "LightLayer",       extends |-> "Layer",         creator |-> "addLight"],
       [name |-> "ShapeLayer",       extends |-> "TextLayer",     creator |-> "addShape"],
       [name |-> "TextLayer",        extends |-> "AVLayer",       creator |-> "addText"],
       [name |-> "ThreeDModelLayer", extends |-> "AVLayer",       creator |-> ""],
       [name |-> "LayerCollection",  extends |-> "Collection",    creator |-> ""] >>

Classes ==
    << [name |-> "PropertyGroup",    extends |-> "",              creator |-> ""],
       [name |-> "Collection",       extends |-> "",              creator |-> ""],
       [name |-> "_TransformGroup",  extends |-> "PropertyGroup", creator |-> ""],
       [name |-> "_TextProperties",  extends |-> "PropertyGroup", creator |-> ""],
       [name |-> "Layer",            extends |-> "PropertyGroup", creator |-> ""],
       [name |-> "AVLayer",          extends |-> "Layer",         creator |-> ""],
       [name |-> "CameraLayer",      extends |-> "Layer",         creator |-> "addCamera"],
       [name |-> "LightLayer",       extends |-> "Layer",         creator |-> "addLight"],
       [name |-> "ShapeLayer",       extends |-> "AVLayer",       creator |-> "addShape"],
       [name |-> "TextLayer",        extends |-> "AVLayer",       creator |-> "addText"],
       [name |-> "ThreeDModelLayer", extends |-> "AVLayer",       creator |-> ""],
       [name |-> "LayerCollection",  extends |-> "Collection",    creator |-> ""] >>

ClassNames == { Classes[i].name : i \in DOMAIN Classes }

ClassNamed(c) == CHOOSE k \in { Classes[i] : i \in DOMAIN Classes } : k.name = c

Extends(c) == ClassNamed(c).extends

\* The classes of layers: Layer and the classes declared over it.
LayerClasses ==
    { "Layer", "AVLayer", "CameraLayer", "LightLayer", "ShapeLayer", "TextLayer",
      "ThreeDModelLayer" }

\* ---------------------------------------------------------------------------
\* Members of the classes, in declaration order: name, kind, declared type (of
\* a method: its return type), whether the declaration carries the readonly
\* modifier, and whether its documentation carries the @readonly tag.

\* Variant: orientation declared as a 2D-or-3D property in the group.
_TransformGroupMembers_FlatOrientation ==
    << [name |-> "anchorPoint", kind |-> "attribute", type |-> "TwoDOrThreeDProperty",
        readonly |-> TRUE, tag |-> FALSE],
       [name |-> "position", kind |-> "attribute", type |-> "TwoDOrThreeDProperty",
        readonly |-> TRUE, tag |-> FALSE],
       [name |-> "xPosition", kind |-> "attribute", type |-> "OneDProperty",
        readonly |-> TRUE, tag |-> FALSE],
       [name |-> "yPosition", kind |-> "attribute", type |-> "OneDProperty",
        readonly |-> TRUE, tag |-> FALSE],
       [name |-> "zPosition", kind |-> "attribute", type |-> "OneDProperty",
        readonly |-> TRUE, tag |-> FALSE],
       [name |-> "scale", kind |-> "attribute", type |-> "TwoDOrThreeDProperty",
        readonly |-> TRUE, tag |-> FALSE],
       [name |-> "orientation", kind |-> "attribute", type |-> "TwoDOrThreeDProperty",
        readonly |-> TRUE, tag |-> FALSE],
       [name |-> "rotation", kind |-> "attribute", type |-> "OneDProperty",
        readonly |-> TRUE, tag |-> FALSE],
       [name |-> "xRotation", kind |-> "attribute", type |-> "OneDProperty",
        readonly |-> TRUE, tag |-> FALSE],
       [name |-> "yRotation", kind |-> "attribute", type |-> "OneDProperty",
        readonly |-> TRUE, tag |-> FALSE],
       [name |-> "zRotation", kind |-> "attribute", type |-> "OneDProperty",
        readonly |-> TRUE, tag |-> FALSE],
       [name |-> "opacity", kind |-> "attribute", type |-> "OneDProperty",
        readonly |-> TRUE, tag |-> FALSE],
       [name |-> "pointOfInterest", kind |-> "attribute", type |-> "ThreeDProperty",
        readonly |-> TRUE, tag |-> FALSE] >>

_TransformGroupMembers ==
    << [name |-> "anchorPoint", kind |-> "attribute", type |-> "TwoDOrThreeDProperty",
        readonly |-> TRUE, tag |-> FALSE],
       [name |-> "position", kind |-> "attribute", type |-> "TwoDOrThreeDProperty",
        readonly |-> TRUE, tag |-> FALSE],
       [name |-> "xPosition", kind |-> "attribute", type |-> "OneDProperty",
        readonly |-> TRUE, tag |-> FALSE],
       [name |-> "yPosition", kind |-> "attribute", type |-> "OneDProperty",
        readonly |-> TRUE, tag |-> FALSE],
       [name |-> "zPosition", kind |-> "attribute", type |-> "OneDProperty",
        readonly |-> TRUE, tag |-> FALSE],
       [name |-> "scale", kind |-> "attribute", type |-> "TwoDOrThreeDProperty",
        readonly |-> TRUE, tag |-> FALSE],
       [name |-> "orientation", kind |-> "attribute", type |-> "ThreeDProperty",
        readonly |-> TRUE, tag |-> FALSE],
       [name |-> "rotation", kind |-> "attribute", type |-> "OneDProperty",
        readonly |-> TRUE, tag |-> FALSE],
       [name |-> "xRotation", kind |-> "attribute", type |-> "OneDProperty",
        readonly |-> TRUE, tag |-> FALSE],
       [name |-> "yRotation", kind |-> "attribute", type |-> "OneDProperty",
        readonly |-> TRUE, tag |-> FALSE],
       [name |-> "zRotation", kind |-> "attribute", type |-> "OneDProperty",
        readonly |-> TRUE, tag |-> FALSE],
       [name |-> "opacity", kind |-> "attribute", type |-> "OneDProperty",
        readonly |-> TRUE, tag |-> FALSE],
       [name |-> "pointOfInterest", kind |-> "attribute", type |-> "ThreeDProperty",
        readonly |-> TRUE, tag |-> FALSE] >>

_TextPropertiesMembers ==
    << [name |-> "sourceText", kind |-> "attribute", type |-> "TextDocumentProperty",
        readonly |-> TRUE, tag |-> FALSE],
       [name |-> "pathOptions", kind |-> "attribute", type |-> "PropertyGroup",
        readonly |-> TRUE, tag |-> FALSE],
       [name |-> "moreOptions", kind |-> "attribute", type |-> "PropertyGroup",
        readonly |-> TRUE, tag |-> FALSE],
       [name |-> "animators", kind |-> "attribute", type |-> "PropertyGroup",
        readonly |-> TRUE, tag |-> FALSE] >>

LayerMembers ==
    << [name |-> "id", kind |-> "attribute", type |-> "number",
        readonly |-> TRUE, tag |-> TRUE],
       [name |-> "index", kind |-> "attribute", type |-> "LayerIndex<number>",
        readonly |-> TRUE, tag |-> TRUE],
       [name |-> "time", kind |-> "attribute", type |-> "number",
        readonly |-> TRUE, tag |-> TRUE],
       [name |-> "hasVideo", kind |-> "attribute", type |-> "boolean",
        readonly |-> TRUE, tag |-> TRUE],
       [name |-> "active", kind |-> "attribute", type |-> "boolean",
        readonly |-> TRUE, tag |-> TRUE],
       [name |-> "nullLayer", kind |-> "attribute", type |-> "boolean",
        readonly |-> TRUE, tag |-> TRUE],
       [name |-> "selectedProperties", kind |-> "attribute", type |-> "_PropertyClasses[]",
        readonly |-> TRUE, tag |-> TRUE],
       [name |-> "containingComp", kind |-> "attribute", type |-> "CompItem",
        readonly |-> TRUE, tag |-> TRUE],
       [name |-> "isNameSet", kind |-> "attribute", type |-> "boolean",
        readonly |-> TRUE, tag |-> TRUE],
       [name |-> "name", kind |-> "attribute", type |-> "string",
        readonly |-> FALSE, tag |-> FALSE],
       [name |-> "parent", kind |-> "attribute", type |-> "Layer | null",
        readonly |-> FALSE, tag |-> FALSE],
       [name |-> "startTime", kind |-> "attribute", type |-> "TimeRange",
        readonly |-> FALSE, tag |-> FALSE],
       [name |-> "stretch", kind |-> "attribute", type |-> "number",
        readonly |-> FALSE, tag |-> FALSE],
       [name |-> "inPoint", kind |-> "attribute", type |-> "TimeRange",
        readonly |-> FALSE, tag |-> FALSE],
       [name |-> "outPoint", kind |-> "attribute", type |-> "TimeRange",
        readonly |-> FALSE, tag |-> FALSE],
       [name |-> "enabled", kind |-> "attribute", type |-> "boolean",
        readonly |-> FALSE, tag |-> FALSE],
       [name |-> "solo", kind |-> "attribute", type |-> "boolean",
        readonly |-> FALSE, tag |-> FALSE],
       [name |-> "shy", kind |-> "attribute", type |-> "boolean",
        readonly |-> FALSE, tag |-> FALSE],
       [name |-> "locked", kind |-> "attribute", type |-> "boolean",
        readonly |-> FALSE, tag |-> FALSE],
       [name |-> "comment", kind |-> "attribute", type |-> "string",
        readonly |-> FALSE, tag |-> FALSE],
       [name |-> "label", kind |-> "attribute", type |-> "LabelIndex",
        readonly |-> FALSE, tag |-> FALSE],
       [name |-> "autoOrient", kind |-> "attribute", type |-> "AutoOrientType",
        readonly |-> FALSE, tag |-> FALSE],
       [name |-> "moveToBeginning", kind |-> "method", type |-> "void",
        readonly |-> FALSE, tag |-> FALSE],
       [name |-> "moveToEnd", kind |-> "method", type |-> "void",
        readonly |-> FALSE, tag |-> FALSE],
       [name |-> "moveAfter", kind |-> "method", type |-> "void",
        readonly |-> FALSE, tag |-> FALSE],
       [name |-> "moveBefore", kind |-> "method", type |-> "void",
        readonly |-> FALSE, tag |-> FALSE],
       [name |-> "duplicate", kind |-> "method", type |-> "Layer",
        readonly |-> FALSE, tag |-> FALSE],
       [name |-> "copyToComp", kind |-> "method", type |-> "void",
        readonly |-> FALSE, tag |-> FALSE],
       [name |-> "doSceneEditDetection", kind |-> "method", type |-> "number[]",
        readonly |-> FALSE, tag |-> FALSE],
       [name |-> "activeAtTime", kind |-> "method", type |-> "boolean",
        readonly |-> FALSE, tag |-> FALSE],
       [name |-> "setParentWithJump", kind |-> "method", type |-> "void",
        readonly |-> FALSE, tag |-> FALSE],
       [name |-> "applyPreset", kind |-> "method", type |-> "void",
        readonly |-> FALSE, tag |-> FALSE],
       [name |-> "marker", kind |-> "attribute", type |-> "MarkerValueProperty",
        readonly |-> TRUE, tag |-> TRUE],
       [name |-> "transform", kind |-> "attribute", type |-> "_TransformGroup",
        readonly |-> TRUE, tag |-> TRUE],
       [name |-> "anchorPoint", kind |-> "attribute", type |-> "TwoDOrThreeDProperty",
        readonly |-> TRUE, tag |-> TRUE],
       [name |-> "position", kind |-> "attribute", type |-> "TwoDOrThreeDProperty",
        readonly |-> TRUE, tag |-> TRUE],
       [name |-> "xPosition", kind |-> "attribute", type |-> "OneDProperty",
        readonly |-> TRUE, tag |-> TRUE],
       [name |-> "yPosition", kind |-> "attribute", type |-> "OneDProperty",
        readonly |-> TRUE, tag |-> TRUE],
       [name |-> "zPosition", kind |-> "attribute", type |-> "OneDProperty",
        readonly |-> TRUE, tag |-> TRUE],
       [name |-> "scale", kind |-> "attribute", type |-> "TwoDOrThreeDProperty",
        readonly |-> TRUE, tag |-> TRUE],
       [name |-> "orientation", kind |-> "attribute", type |-> "ThreeDProperty",
        readonly |-> TRUE, tag |-> TRUE],
       [name |-> "rotation", kind |-> "attribute", type |-> "OneDProperty",
        readonly |-> TRUE, tag |-> TRUE],
       [name |-> "xRotation", kind |-> "attribute", type |-> "OneDProperty",
        readonly |-> TRUE, tag |-> TRUE],
       [name |-> "yRotation", kind |-> "attribute", type |-> "OneDProperty",
        readonly |-> TRUE, tag |-> TRUE],
       [name |-> "zRotation", kind |-> "attribute", type |-> "OneDProperty",
        readonly |-> TRUE, tag |-> TRUE],
       [name |-> "opacity", kind |-> "attribute", type |-> "OneDProperty",
        readonly |-> TRUE, tag |-> TRUE],
       [name |-> "pointOfInterest", kind |-> "attribute", type |-> "ThreeDProperty",
        readonly |-> TRUE, tag |-> TRUE] >>

AVLayerMembers ==
    << [name |-> "source", kind |-> "attribute", type |-> "any",
        readonly |-> TRUE, tag |-> TRUE],
       [name |-> "isNameFromSource", kind |-> "attribute", type |-> "boolean",
        readonly |-> TRUE, tag |-> TRUE],
       [name |-> "height", kind |-> "attribute", type |-> "number",
        readonly |-> TRUE, tag |-> TRUE],
       [name |-> "width", kind |-> "attribute", type |-> "number",
        readonly |-> TRUE, tag |-> TRUE],
       [name |-> "canSetCollapseTransformation", kind |-> "attribute", type |-> "boolean",
        readonly |-> TRUE, tag |-> TRUE],
       [name |-> "frameBlending", kind |-> "attribute", type |-> "boolean",
        readonly |-> TRUE, tag |-> TRUE],
       [name |-> "canSetTimeRemapEnabled", kind |-> "attribute", type |-> "boolean",
        readonly |-> TRUE, tag |-> TRUE],
       [name |-> "hasAudio", kind |-> "attribute", type |-> "boolean",
        readonly |-> TRUE, tag |-> TRUE],
       [name |-> "audioActive", kind |-> "attribute", type |-> "boolean",
        readonly |-> TRUE, tag |-> TRUE],
       [name |-> "isTrackMatte", kind |-> "attribute", type |-> "boolean",
        readonly |-> TRUE, tag |-> TRUE],
       [name |-> "hasTrackMatte", kind |-> "attribute", type |-> "boolean",
        readonly |-> TRUE, tag |-> TRUE],
       [name |-> "trackMatteLayer", kind |-> "attribute", type |-> "AVLayer | null",
        readonly |-> TRUE, tag |-> TRUE],
       [name |-> "audioEnabled", kind |-> "attribute", type |-> "boolean",
        readonly |-> FALSE, tag |-> FALSE],
       [name |-> "motionBlur", kind |-> "attribute", type |-> "boolean",
        readonly |-> FALSE, tag |-> FALSE],
       [name |-> "effectsActive", kind |-> "attribute", type |-> "boolean",
        readonly |-> FALSE, tag |-> FALSE],
       [name |-> "adjustmentLayer", kind |-> "attribute", type |-> "boolean",
        readonly |-> FALSE, tag |-> FALSE],
       [name |-> "environmentLayer", kind |-> "attribute", type |-> "boolean",
        readonly |-> FALSE, tag |-> FALSE],
       [name |-> "guideLayer", kind |-> "attribute", type |-> "boolean",
        readonly |-> FALSE, tag |-> FALSE],
       [name |-> "threeDLayer", kind |-> "attribute", type |-> "boolean",
        readonly |-> FALSE, tag |-> FALSE],
       [name |-> "threeDPerChar", kind |-> "attribute", type |-> "boolean",
        readonly |-> FALSE, tag |-> FALSE],
       [name |-> "collapseTransformation", kind |-> "attribute", type |-> "boolean",
        readonly |-> FALSE, tag |-> FALSE],
       [name |-> "frameBlendingType", kind |-> "attribute", type |-> "FrameBlendingType",
        readonly |-> FALSE, tag |-> FALSE],
       [name |-> "timeRemapEnabled", kind |-> "attribute", type |-> "boolean",
        readonly |-> FALSE, tag |-> FALSE],
       [name |-> "blendingMode", kind |-> "attribute", type |-> "BlendingMode",
        readonly |-> FALSE, tag |-> FALSE],
       [name |-> "preserveTransparency", kind |-> "attribute", type |-> "boolean",
        readonly |-> FALSE, tag |-> FALSE],
       [name |-> "samplingQuality", kind |-> "attribute", type |-> "LayerSamplingQuality",
        readonly |-> FALSE, tag |-> FALSE],
       [name |-> "trackMatteType", kind |-> "attribute", type |-> "TrackMatteType",
        readonly |-> FALSE, tag |-> FALSE],
       [name |-> "quality", kind |-> "attribute", type |-> "LayerQuality",
        readonly |-> FALSE, tag |-> FALSE],
       [name |-> "audioActiveAtTime", kind |-> "method", type |-> "boolean",
        readonly |-> FALSE, tag |-> FALSE],
       [name |-> "calculateTransformFromPoints", kind |-> "method", type |-> "object",
        readonly |-> FALSE, tag |-> FALSE],
       [name |-> "sourcePointToComp", kind |-> "method", type |-> "[number, number]",
        readonly |-> FALSE, tag |-> FALSE],
       [name |-> "compPointToSource", kind |-> "method", type |-> "[number, number]",
        readonly |-> FALSE, tag |-> FALSE],
       [name |-> "openInViewer", kind |-> "method", type |-> "Viewer | null",
        readonly |-> FALSE, tag |-> FALSE],
       [name |-> "replaceSource", kind |-> "method", type |-> "void",
        readonly |-> FALSE, tag |-> FALSE],
       [name |-> "sourceRectAtTime", kind |-> "method", type |-> "{ top: number; left: number; width: number; height: number }",
        readonly |-> FALSE, tag |-> FALSE],
       [name |-> "addToMotionGraphicsTemplate", kind |-> "method", type |-> "boolean",
        readonly |-> FALSE, tag |-> FALSE],
       [name |-> "addToMotionGraphicsTemplateAs", kind |-> "method", type |-> "boolean",
        readonly |-> FALSE, tag |-> FALSE],
       [name |-> "canAddToMotionGraphicsTemplate", kind |-> "method", type |-> "boolean",
        readonly |-> FALSE, tag |-> FALSE],
       [name |-> "removeTrackMatte", kind |-> "method", type |-> "void",
        readonly |-> FALSE, tag |-> FALSE],
       [name |-> "setTrackMatte", kind |-> "method", type |-> "void",
        readonly |-> FALSE, tag |-> FALSE],
       [name |-> "timeRemap", kind |-> "attribute", type |-> "OneDProperty",
        readonly |-> TRUE, tag |-> TRUE],
       [name |-> "mask", kind |-> "attribute", type |-> "MaskPropertyGroup",
        readonly |-> TRUE, tag |-> TRUE],
       [name |-> "effect", kind |-> "attribute", type |-> "PropertyGroup",
        readonly |-> TRUE, tag |-> TRUE],
       [name |-> "layerStyle", kind |-> "attribute", type |-> "_LayerStyles",
        readonly |-> TRUE, tag |-> TRUE],
       [name |-> "geometryOption", kind |-> "attribute", type |-> "_GeometryOptionsGroup",
        readonly |-> TRUE, tag |-> TRUE],
       [name |-> "materialOption", kind |-> "attribute", type |-> "_MaterialOptionsGroup",
        readonly |-> TRUE, tag |-> TRUE],
       [name |-> "audio", kind |-> "attribute", type |-> "_AudioGroup",
        readonly |-> TRUE, tag |-> TRUE] >>

CameraLayerMembers ==
    << [name |-> "cameraOption", kind |-> "attribute", type |-> "_CameraOptionsGroup",
        readonly |-> TRUE, tag |-> TRUE] >>

LightLayerMembers ==
    << [name |-> "lightOption", kind |-> "attribute", type |-> "_LightOptionsGroup",
        readonly |-> TRUE, tag |-> TRUE],
       [name |-> "lightType", kind |-> "attribute", type |-> "LightType",
        readonly |-> FALSE, tag |-> FALSE] >>

ShapeLayerMembers == << >>

\* Variant: TextLayer.text declared without the readonly modifier.
TextLayerMembers_WritableText ==
    << [name |-> "source", kind |-> "attribute", type |-> "null",
        readonly |-> TRUE, tag |-> TRUE],
       [name |-> "text", kind |-> "attribute", type |-> "_TextProperties",
        readonly |-> FALSE, tag |-> TRUE],
       [name |-> "sourceText", kind |-> "attribute", type |-> "TextDocumentProperty",
        readonly |-> TRUE, tag |-> TRUE] >>

TextLayerMembers ==
    << [name |-> "source", kind |-> "attribute", type |-> "null",
        readonly |-> TRUE, tag |-> TRUE],
       [name |-> "text", kind |-> "attribute", type |-> "_TextProperties",
        readonly |-> TRUE, tag |-> TRUE],
       [name |-> "sourceText", kind |-> "attribute", type |-> "TextDocumentProperty",
        readonly |-> TRUE, tag |-> TRUE] >>

ThreeDModelLayerMembers == << >>

\* Variant: addShape declared to return AVLayer.
LayerCollectionMembers_ShapeAsAVLayer ==
    << [name |-> "[index: number]", kind |-> "index", type |-> "Layer",
        readonly |-> TRUE, tag |-> TRUE],
       [name |-> "add", kind |-> "method", type |-> "AVLayer",
        readonly |-> FALSE, tag |-> FALSE],
       [name |-> "addNull", kind |-> "method", type |-> "AVLayer",
        readonly |-> FALSE, tag |-> FALSE],
       [name |-> "addSolid", kind |-> "method", type |-> "AVLayer",
        readonly |-> FALSE, tag |-> FALSE],
       [name |-> "addVerticalBoxText", kind |-> "method", type |-> "TextLayer",
        readonly |-> FALSE, tag |-> FALSE],
       [name |-> "addVerticalText", kind |-> "method", type |-> "TextLayer",
        readonly |-> FALSE, tag |-> FALSE],
       [name |-> "addBoxText", kind |-> "method", type |-> "TextLayer",
        readonly |-> FALSE, tag |-> FALSE],
       [name |-> "addText", kind |-> "method", type |-> "TextLayer",
        readonly |-> FALSE, tag |-> FALSE],
       [name |-> "addCamera", kind |-> "method", type |-> "CameraLayer",
        readonly |-> FALSE, tag |-> FALSE],
       [name |-> "addLight", kind |-> "method", type |-> "LightLayer",
        readonly |-> FALSE, tag |-> FALSE],
       [name |-> "addShape", kind |-> "method", type |-> "AVLayer",
        readonly |-> FALSE, tag |-> FALSE],
       [name |-> "byName", kind |-> "method", type |-> "Layer | null",
        readonly |-> FALSE, tag |-> FALSE],
       [name |-> "precompose", kind |-> "method", type |-> "CompItem",
        readonly |-> FALSE, tag |-> FALSE] >>

LayerCollectionMembers ==
    << [name |-> "[index: number]", kind |-> "index", type |-> "Layer",
        readonly |-> TRUE, tag |-> TRUE],
       [name |-> "add", kind |-> "method", type |-> "AVLayer",
        readonly |-> FALSE, tag |-> FALSE],
       [name |-> "addNull", kind |-> "method", type |-> "AVLayer",
        readonly |-> FALSE, tag |-> FALSE],
       [name |-> "addSolid", kind |-> "method", type |-> "AVLayer",
        readonly |-> FALSE, tag |-> FALSE],
       [name |-> "addVerticalBoxText", kind |-> "method", type |-> "TextLayer",
        readonly |-> FALSE, tag |-> FALSE],
       [name |-> "addVerticalText", kind |-> "method", type |-> "TextLayer",
        readonly |-> FALSE, tag |-> FALSE],
       [name |-> "addBoxText", kind |-> "method", type |-> "TextLayer",
        readonly |-> FALSE, tag |-> FALSE],
       [name |-> "addText", kind |-> "method", type |-> "TextLayer",
        readonly |-> FALSE, tag |-> FALSE],
       [name |-> "addCamera", kind |-> "method", type |-> "CameraLayer",
        readonly |-> FALSE, tag |-> FALSE],
       [name |-> "addLight", kind |-> "method", type |-> "LightLayer",
        readonly |-> FALSE, tag |-> FALSE],
       [name |-> "addShape", kind |-> "method", type |-> "ShapeLayer",
        readonly |-> FALSE, tag |-> FALSE],
       [name |-> "byName", kind |-> "method", type |-> "Layer | null",
        readonly |-> FALSE, tag |-> FALSE],
       [name |-> "precompose", kind |-> "method", type |-> "CompItem",
        readonly |-> FALSE, tag |-> FALSE] >>

\* the property interfaces of the forward declarations
PropertyTypes == { "OneDProperty", "TwoDOrThreeDProperty", "ThreeDProperty" }

\* The members a class declares itself; PropertyGroup and Collection are
\* declared with an empty body.
MembersOf(c) ==
    CASE c = "Layer" -> LayerMembers
      [] c = "AVLayer" -> AVLayerMembers
      [] c = "CameraLayer" -> CameraLayerMembers
      [] c = "LightLayer" -> LightLayerMembers
      [] c = "ShapeLayer" -> ShapeLayerMembers
      [] c = "TextLayer" -> TextLayerMembers
      [] c = "ThreeDModelLayer" -> ThreeDModelLayerMembers
      [] c = "LayerCollection" -> LayerCollectionMembers
      [] c = "_TransformGroup" -> _TransformGroupMembers
      [] c = "_TextProperties" -> _TextPropertiesMembers
      [] OTHER -> << >>

Declared(c) == { MembersOf(c)[i] : i \in DOMAIN MembersOf(c) }

DeclaredNames(c) == { m.name : m \in Declared(c) }

Declares(c, m) == m \in DeclaredNames(c)

MemberOf(c, m) == CHOOSE d \in Declared(c) : d.name = m

AllMemberNames == UNION { DeclaredNames(c) : c \in ClassNames }

\* c is d or is declared, directly or not, over d
RECURSIVE Derives(_, _)
Derives(c, d) == c = d \/ (Extends(c) # "" /\ Derives(Extends(c), d))

\* A member type s can stand where the member type t is expected: the same
\* type, any on either side, or a class declared over the expected class.
TypeAssignable(s, t) ==
    \/ s = t
    \/ t = "any"
    \/ s = "any"
    \/ (s \in ClassNames /\ t \in ClassNames /\ Derives(s, t))

\* ---------------------------------------------------------------------------
\* The types of the attributes and parameters that refer to another layer:
\* the class an object must belong to.

\* Variant: parent declared as AVLayer | null.
LayerOrNull_AVLayerOnly == [name |-> "Layer | null", class |-> "AVLayer"]

\* Layer.parent: Layer | null
LayerOrNull == [name |-> "Layer | null", class |-> "Layer"]

\* Layer.setParentWithJump(newParent?: Layer)
OptionalLayer == [name |-> "Layer", class |-> "Layer"]

References == { LayerOrNull, OptionalLayer }

ReferenceNames == { r.name : r \in References }

ReferenceNamed(n) == CHOOSE r \in References : r.name = n

\* What a script knows about a layer it supplies and the type does not say:
\* how it is related to the layer it is supplied to.
Relations == { "itself", "same composition", "another composition" }

----------------------------------------------------------------------------
(* Expressions supplied to a typed place, by the type the checker gives    *)
(* them.                                                                   *)

\* a number literal, e.g. 17 or 0.5: its type is the literal type
Literal(n) == [kind |-> "literal", value |-> n]

\* a value carrying a brand, e.g. (20000 as TimeRange)
Branded(b, n) == [kind |-> "branded", brand |-> b, value |-> n]

\* an enum member, e.g. LightType.SPOT
Member(e, n) == [kind |-> "member", enum |-> e, name |-> n]

\* a value whose type is a range alias, e.g. a variable declared x: Percentage
OfAlias(a) == [kind |-> "alias", name |-> a]

\* an array literal of number literals, e.g. [0.5, 0.5, 0.5]
TupleOf(ns) == [kind |-> "tuple", elems |-> ns]

\* a layer object of class c, standing in relation r to the receiving layer
LayerRef(c, r) == [kind |-> "layer", class |-> c, relation |-> r]

\* Assignability to a union of number literals (a NumericRange result): a
\* number literal or an enum member is assignable when its value is a member
\* of the union, a union when each of its members is.
AssignableToRange(e, t, i) ==
    CASE e.kind = "literal" -> e.value \in i[t]
      [] e.kind = "alias" -> i[e.name] \subseteq i[t]
      [] e.kind = "member" -> IntLit(CodeOf(e.enum, e.name)) \in i[t]
      [] OTHER -> FALSE

\* a brand that also restricted the value to the documented range
AssignableToBrand_Ranged(e, t) ==
    /\ e.kind = "branded"
    /\ e.brand = t
    /\ Le((CHOOSE b \in Brands : b.name = t).lo, e.value)
    /\ Le(e.value, (CHOOSE b \in Brands : b.name = t).hi)

\* Assignability to number & { __brand: B }: only a type that has the
\* property __brand of type B.  The value plays no part.
AssignableToBrand(e, t) ==
    /\ e.kind = "branded"
    /\ e.brand = t

\* Assignability to an enum: its own members, a number literal equal to
\* the code of a member, and any type that has number as a constituent.
AssignableToEnum(e, t, i) ==
    CASE e.kind = "member" -> e.enum = t
      [] e.kind = "literal" -> IsIntLit(e.value) /\ e.value.whole \in Codes(t)
      [] e.kind = "alias" -> \A v \in i[e.name] : IsIntLit(v) /\ v.whole \in Codes(t)
      [] e.kind = "branded" -> TRUE
      [] OTHER -> FALSE

\* Assignability to a tuple alias: a tuple of the same length, element by
\* element.
AssignableToTuple(e, t, i) ==
    /\ e.kind = "tuple"
    /\ Len(e.elems) = Len(TupleNamed(t).elems)
    /\ \A k \in 1..Len(e.elems) : e.elems[k] \in i[TupleNamed(t).elems[k]]

\* Assignability to a type that refers to a layer: an object of the class or
\* of a class declared over it.  The relation plays no part.
AssignableToReference(e, t) ==
    /\ e.kind = "layer"
    /\ Derives(e.class, ReferenceNamed(t).class)

\* Assignability of the type of expression e to the type named t, with the
\* NumericRange instantiations in i.
Assignable(e, t, i) ==
    IF t \in DOMAIN i THEN AssignableToRange(e, t, i)
    ELSE IF t \in BrandNames THEN AssignableToBrand(e, t)
    ELSE IF t \in EnumNames THEN AssignableToEnum(e, t, i)
    ELSE IF t \in TupleNames THEN AssignableToTuple(e, t, i)
    ELSE IF t \in ReferenceNames THEN AssignableToReference(e, t)
    ELSE FALSE

Verdict(e, t, i) == IF Assignable(e, t, i) THEN "accepted" ELSE "rejected"

----------------------------------------------------------------------------
(* The expressions tried, chosen around every boundary the declarations    *)
(* and their documentation name.                                           *)

\* the literals around the documented range of a brand, and far outside it
AroundBrand(b) ==
    { Num(b.lo.whole - 1, b.lo.tenths), b.lo, IntLit(b.lo.whole + 1),
      b.hi, Num(b.hi.whole + 1, b.hi.tenths), IntLit(2 * b.hi.whole) }

BrandedValues == { Branded(b.name, n) : b \in Brands, n \in UNION { AroundBrand(c) : c \in Brands } }

MemberRefs == UNION { { Member(e, n) : n \in MemberNames(e) } : e \in EnumNames }

\* per enum: every code, and the integers just below and above its codes
AroundCodes(e) ==
    LET cs == Codes(e)
        lo == CHOOSE c \in cs : \A d \in cs : c <= d
        hi == CHOOSE c \in cs : \A d \in cs : d <= c
    IN IntLits(lo - 1, hi + 1)

\* the largest END of a declared range alias
MaxAliasEnd ==
    LET ends == { RangeAliases[k].END.whole : k \in 1..Len(RangeAliases) }
    IN CHOOSE m \in ends : \A n \in ends : n <= m

Fractions == { Num(0, 5), Num(1, 4), Num(1, 5), Num(-1, 5) }

DeclarationLiterals ==
    IntLits(-MaxNeg, MaxAliasEnd + 1) \cup Fractions
        \cup UNION { AroundBrand(b) : b \in Brands }
        \cup UNION { AroundCodes(e) : e \in EnumNames }

AdhocLiterals == IntLits(-MaxNeg - 1, MaxBound + 1) \cup Fractions

ColorParts == { IntLit(-1), IntLit(0), Num(0, 5), IntLit(1), IntLit(2) }

TupleValues ==
    { TupleOf(<<r, g, b>>) : r \in ColorParts, g \in ColorParts, b \in ColorParts }
        \cup { TupleOf(<<r, g>>) : r \in {IntLit(0), IntLit(1)}, g \in {IntLit(0), IntLit(1)} }

LayerRefs == { LayerRef(c, r) : c \in LayerClasses, r \in Relations }

Expressions(prog) ==
    IF prog = "declarations"
    THEN { Literal(n) : n \in DeclarationLiterals } \cup BrandedValues \cup MemberRefs
             \cup { OfAlias(a) : a \in RangeAliasNames } \cup TupleValues \cup LayerRefs
    ELSE { Literal(n) : n \in AdhocLiterals }

\* the named types an expression can be related to
TypeNames(prog, i) ==
    IF prog = "declarations"
    THEN DOMAIN i \cup BrandNames \cup EnumNames \cup TupleNames
    ELSE DOMAIN i

----------------------------------------------------------------------------

NoExpr == [kind |-> "none"]

\* Either the declarations are compiled (the six aliases, then a use of a
\* type), or one NumericRange<S, E> written directly.  The rule for a
\* negative tuple index matters only when START is negative, which no
\* declared alias is.
Init ==
    /\ program \in { "declarations", "adhoc" }
    /\ IF program = "declarations"
       THEN /\ queue = RangeAliases
            /\ indexRule = "undefined"
       ELSE /\ \E s \in AdhocStarts, e \in AdhocEnds :
                 queue = << [name |-> AdhocName, START |-> s, END |-> e] >>
            /\ indexRule \in IF Lt(queue[1].START, IntLit(0))
                             THEN { "undefined", "element" } ELSE { "undefined" }
    /\ cur = ""
    /\ START = IntLit(0)
    /\ END = IntLit(0)
    /\ ARR = << >>
    /\ ACC = {}
    /\ steps = 0
    /\ inst = << >>
    /\ pc = "next"
    /\ site = ""
    /\ target = ""
    /\ expr = NoExpr
    /\ verdict = "none"
    /\ recv = ""
    /\ member = ""
    /\ access = ""
    /\ owner = ""
    /\ hops = 0
    /\ memberType = ""

\* Reference to the next alias: NumericRange<START, END> with the defaults
\* ARR = [] and ACC = never.
Instantiate ==
    /\ pc = "next"
    /\ queue # << >>
    /\ cur' = Head(queue).name
    /\ START' = Head(queue).START
    /\ END' = Head(queue).END
    /\ ARR' = << >>
    /\ ACC' = {}
    /\ steps' = 0
    /\ queue' = Tail(queue)
    /\ pc' = "eval"
    /\ UNCHANGED <<program, indexRule, inst, site, target, expr, verdict,
                   lookupVars>>

\* True branch of the conditional type: the result is ACC | START | END.
NumericRangeStop ==
    /\ pc = "eval"
    /\ LengthExtendsEND(ARR, END)
    /\ inst' = [n \in DOMAIN inst \cup {cur} |->
                   IF n = cur THEN StopResult(ACC, START, END) ELSE inst[n]]
    /\ pc' = "next"
    /\ UNCHANGED <<program, indexRule, queue, cur, START, END, ARR, ACC, steps,
                   site, target, expr, verdict,
                   lookupVars>>

\* False branch: the recursive reference with ARR one longer.
NumericRangeRecurse ==
    /\ pc = "eval"
    /\ ~LengthExtendsEND(ARR, END)
    /\ steps < MaxInstantiationDepth
    /\ ARR' = NextARR(ARR)
    /\ ACC' = NextACC(ARR, START, ACC, indexRule)
    /\ steps' = steps + 1
    /\ UNCHANGED <<program, indexRule, queue, cur, START, END, inst, pc,
                   site, target, expr, verdict,
                   lookupVars>>

\* The checker abandons a recursion it takes to be infinite.
TooDeep ==
    /\ pc = "eval"
    /\ ~LengthExtendsEND(ARR, END)
    /\ steps >= MaxInstantiationDepth
    /\ pc' = "too_deep"
    /\ UNCHANGED <<program, indexRule, queue, cur, START, END, ARR, ACC, steps,
                   inst, site, target, expr, verdict,
                   lookupVars>>

\* Every alias is instantiated: uses of the types can be checked.
AllInstantiated ==
    /\ pc = "next"
    /\ queue = << >>
    /\ pc' = "check"
    /\ UNCHANGED <<program, indexRule, queue, cur, START, END, ARR, ACC, steps,
                   inst, site, target, expr, verdict,
                   lookupVars>>

\* An expression is supplied where a named type is required (const x: T = e).
AssignToType ==
    /\ pc = "check"
    /\ \E t \in TypeNames(program, inst), e \in Expressions(program) :
          /\ site' = ""
          /\ target' = t
          /\ expr' = e
          /\ verdict' = Verdict(e, t, inst)
    /\ pc' = "checked"
    /\ UNCHANGED <<program, indexRule, queue, cur, START, END, ARR, ACC, steps, inst,
                   lookupVars>>

\* An expression is assigned to an attribute, or passed as a parameter, of
\* the layer declarations: it is related to the type the declaration gives.
AssignToSite ==
    /\ pc = "check"
    /\ program = "declarations"
    /\ \E s \in Sites, e \in Expressions(program) :
          /\ site' = s.site
          /\ target' = s.type
          /\ expr' = e
          /\ verdict' = Verdict(e, s.type, inst)
    /\ pc' = "checked"
    /\ UNCHANGED <<program, indexRule, queue, cur, START, END, ARR, ACC, steps, inst,
                   lookupVars>>

\* A member is read from, or assigned to, an object of one of the declared
\* classes: the member's declaration is looked up starting at the object's
\* own class.
AccessMember ==
    /\ pc = "check"
    /\ program = "declarations"
    /\ \E c \in ClassNames, m \in AllMemberNames, a \in { "read", "write" } :
          /\ recv' = c
          /\ member' = m
          /\ access' = a
          /\ owner' = c
    /\ hops' = 0
    /\ pc' = "lookup"
    /\ UNCHANGED <<program, indexRule, queue, cur, START, END, ARR, ACC, steps, inst,
                   site, target, expr, verdict, memberType>>

\* A class declaration is checked against its heritage clause: for a member
\* the class declares, the declaration it would hide is looked up starting
\* at the class it extends.
CheckRedeclaration ==
    /\ pc = "check"
    /\ program = "declarations"
    /\ \E c \in ClassNames :
          /\ Extends(c) # ""
          /\ \E m \in DeclaredNames(c) :
                /\ recv' = c
                /\ member' = m
                /\ owner' = Extends(c)
    /\ access' = "redeclare"
    /\ hops' = 1
    /\ pc' = "lookup"
    /\ UNCHANGED <<program, indexRule, queue, cur, START, END, ARR, ACC, steps, inst,
                   site, target, expr, verdict, memberType>>

\* The class looked at does not declare the member: the lookup goes on in
\* the class it extends.
LookupInherited ==
    /\ pc = "lookup"
    /\ ~Declares(owner, member)
    /\ Extends(owner) # ""
    /\ owner' = Extends(owner)
    /\ hops' = hops + 1
    /\ UNCHANGED <<program, indexRule, queue, cur, START, END, ARR, ACC, steps, inst,
                   pc, site, target, expr, verdict, recv, member, access, memberType>>

\* The class looked at declares the member.  A read has the declared type;
\* an assignment is refused when the declaration is readonly; a
\* redeclaration must keep the type assignable to the hidden one.
LookupFound ==
    /\ pc = "lookup"
    /\ Declares(owner, member)
    /\ memberType' = MemberOf(owner, member).type
    /\ verdict' =
          CASE access = "read" -> "accepted"
            [] access = "write" ->
                  IF MemberOf(owner, member).readonly THEN "rejected" ELSE "accepted"
            [] access = "redeclare" ->
                  IF TypeAssignable(MemberOf(recv, member).type,
                                    MemberOf(owner, member).type)
                  THEN "accepted" ELSE "rejected"
    /\ pc' = "checked"
    /\ UNCHANGED <<program, indexRule, queue, cur, START, END, ARR, ACC, steps, inst,
                   site, target, expr, recv, member, access, owner, hops>>

\* No class of the chain declares the member: the access is refused; a
\* redeclaration hides nothing and stands.
LookupMissing ==
    /\ pc = "lookup"
    /\ ~Declares(owner, member)
    /\ Extends(owner) = ""
    /\ memberType' = ""
    /\ verdict' = IF access = "redeclare" THEN "accepted" ELSE "rejected"
    /\ pc' = "checked"
    /\ UNCHANGED <<program, indexRule, queue, cur, START, END, ARR, ACC, steps, inst,
                   site, target, expr, recv, member, access, owner, hops>>

Next ==
    \/ Instantiate
    \/ NumericRangeStop
    \/ NumericRangeRecurse
    \/ TooDeep
    \/ AllInstantiated
    \/ AssignToType
    \/ AssignToSite
    \/ AccessMember
    \/ CheckRedeclaration
    \/ LookupInherited
    \/ LookupFound
    \/ LookupMissing

Spec == Init /\ [][Next]_vars

\* The instantiation of the aliases alone.  The checker evaluates a type to
\* its end: no step that can be taken is postponed for ever.
Evaluate ==
    \/ Instantiate
    \/ NumericRangeStop
    \/ NumericRangeRecurse
    \/ TooDeep
    \/ AllInstantiated

EvaluationSpec == Init /\ [][Evaluate]_vars /\ WF_vars(Evaluate)

----------------------------------------------------------------------------
(* Properties.                                                             *)

\* the type arguments an instantiated alias was given
BoundsOf(n) == IF n = AdhocName THEN [START |-> START, END |-> END] ELSE AliasNamed(n)

\* C1: for every pair of integer literals lower <= upper, negative ones
\* included, NumericRange<lower, upper> is exactly the set of the integers k
\* with lower <= k <= upper.  (Fails: the counter is a tuple length, so no
\* negative integer other than START itself ever enters the result, and a
\* negative END is never reached.)
C1_ExactIntervalAnySign ==
    /\ \A n \in DOMAIN inst :
         (IsIntLit(BoundsOf(n).START) /\ IsIntLit(BoundsOf(n).END)
            /\ Le(BoundsOf(n).START, BoundsOf(n).END))
         => inst[n] = IntLits(BoundsOf(n).START.whole, BoundsOf(n).END.whole)
    /\ (IsIntLit(START) /\ IsIntLit(END) /\ Le(START, END)) => pc # "too_deep"

\* C2: each declared interval alias accepts the literals lo, hi and every
\* integer between them, and rejects lo - 1 and hi + 1.
C2_AliasesAcceptExactlyTheirInterval ==
    (pc = "next" /\ cur \in DOMAIN inst \cap RangeAliasNames) =>
        \A k \in (AliasNamed(cur).START.whole - 1)..(AliasNamed(cur).END.whole + 1) :
            Assignable(Literal(IntLit(k)), cur, inst)
                <=> (AliasNamed(cur).START.whole <= k /\ k <= AliasNamed(cur).END.whole)

C2_Witness ==
    /\ pc = "checked"
    /\ target = "ConeAngleRange"
    /\ expr = Literal(IntLit(180))
    /\ verdict = "rejected"
    /\ Assignable(Literal(IntLit(179)), "ConeAngleRange", inst)
    /\ Assignable(Literal(IntLit(1)), "ConeAngleRange", inst)
    /\ ~Assignable(Literal(IntLit(0)), "ConeAngleRange", inst)

C4_SameBoundsSameType ==
    pc = "check" =>
        /\ \A a, b \in DOMAIN inst \cap RangeAliasNames :
             (AliasNamed(a).START = AliasNamed(b).START /\ AliasNamed(a).END = AliasNamed(b).END)
             => /\ inst[a] = inst[b]
                /\ Assignable(OfAlias(a), b, inst)
                /\ Assignable(OfAlias(b), a, inst)
        /\ program = "declarations"
             => /\ inst["Percentage"] = inst["OpacityRange"]
                /\ Assignable(OfAlias("Percentage"), "OpacityRange", inst)
                /\ Assignable(OfAlias("OpacityRange"), "Percentage", inst)

C4_Witness ==
    /\ pc = "checked"
    /\ target = "Percentage"
    /\ expr = OfAlias("OpacityRange")
    /\ verdict = "accepted"
    /\ inst["Percentage"] = IntLits(0, 100)

\* the number literal an expression carries, for the kinds that carry one
HasValue(e) == e.kind \in { "literal", "branded" }

OutOfRange(n, b) == ~InDocRange(n, b)

C6_CodesUniqueWithinEnum ==
    (pc = "checked" /\ expr.kind = "member") =>
        \A m \in Members(expr.enum) :
            m.code = CodeOf(expr.enum, expr.name) => m.name = expr.name

C6_Witness ==
    /\ pc = "checked"
    /\ expr = Member("TrackMatteType", "LUMA_INVERTED")
    /\ site = "AVLayer.trackMatteType"
    /\ verdict = "accepted"

\* the enumerations all of whose members document "Integer value: N"
DocumentedEnums ==
    { "AutoOrientType", "FrameBlendingType", "LayerQuality", "LayerSamplingQuality",
      "LightType", "TrackMatteType" }

\* C7: for every member whose documentation states "Integer value: N" (all
\* members of the six enumerations above) the declared code is N.
C7_CodesMatchDocumentation ==
    (pc = "checked" /\ expr.kind = "member") =>
        /\ \A d \in DocValues(expr.enum) :
               d.name = expr.name => d.value = CodeOf(expr.enum, expr.name)
        /\ expr.enum \in DocumentedEnums
               => \E d \in DocValues(expr.enum) : d.name = expr.name

C7_Witness ==
    /\ pc = "checked"
    /\ expr = Member("LightType", "SPOT")
    /\ site = "LightLayer.lightType"
    /\ verdict = "accepted"
    /\ CodeOf("LightType", "SPOT") = 4413

C9_AddSolidColorInUnitRange ==
    (pc = "checked" /\ site = "LayerCollection.addSolid(color)"
        /\ expr.kind = "tuple" /\ Len(expr.elems) = 3)
    => (verdict = "accepted"
          <=> \A k \in 1..3 : Le(IntLit(0), expr.elems[k]) /\ Le(expr.elems[k], IntLit(1)))

\* C10: at every attribute or parameter typed with a range alias and
\* documented with a range, the documented range is the range of the alias:
\* the instantiated set for a NumericRange alias (Layer.label, 0 to 16), the
\* range the brand's declaration states for a branded one (startTime,
\* inPoint, outPoint, the durations, addSolid's width and height).
C10_DocumentedRangeIsAliasRange ==
    (pc = "checked" /\ site # "" /\ SiteNamed(site).doc.kind = "range") =>
        /\ target \in DOMAIN inst
             => /\ IsIntLit(SiteNamed(site).doc.lo) /\ IsIntLit(SiteNamed(site).doc.hi)
                /\ inst[target] = IntLits(SiteNamed(site).doc.lo.whole,
                                          SiteNamed(site).doc.hi.whole)
        /\ target \in BrandNames
             => /\ SiteNamed(site).doc.lo = BrandNamed(target).lo
                /\ SiteNamed(site).doc.hi = BrandNamed(target).hi

C10_Witness ==
    /\ pc = "checked"
    /\ site = "Layer.label"
    /\ target = "LabelIndex"
    /\ expr = Literal(IntLit(16))
    /\ verdict = "accepted"

\* C17 as stated: the counter starts at the lower bound START, and every
\* step adds the counter's current value to the result set and then
\* increments the counter.  (Fails: the counter is the length of ARR, which
\* starts at 0, and a value not above START is not added.)
C17_CounterStartsAtSTART ==
    /\ (pc = "eval" /\ steps = 0) => IntLit(Len(ARR)) = START
    /\ (pc = "eval" /\ steps >= 1) => IntLit(Len(ARR) - 1) \in ACC

\* C17, amended: the counter is the length of ARR and starts at 0 with an
\* empty result set; every step increments it by one and, for an integer
\* START >= 0, adds its current value n to the result set only when
\* n > START.
C17_CounterStartsAtZero ==
    /\ [](pc = "eval" /\ steps = 0 => Len(ARR) = 0 /\ ACC = {})
    /\ [][(pc = "eval" /\ steps' = steps + 1) =>
            /\ Len(ARR') = Len(ARR) + 1
            /\ (IsIntLit(START) /\ START.whole >= 0) =>
                  ACC' = IF Len(ARR) > START.whole
                         THEN ACC \cup { IntLit(Len(ARR)) } ELSE ACC]_vars

C17_Witness ==
    /\ pc = "eval"
    /\ START = IntLit(2)
    /\ END = IntLit(4)
    /\ Len(ARR) = 4
    /\ ACC = { IntLit(3) }

\* C18: for a non-negative integer k, NumericRange<k, k> is the singleton
\* {k}; NumericRange<0, 0> is {0} and takes no recursive step.
C18_EqualBoundsGiveSingleton ==
    (pc = "next" /\ cur \in DOMAIN inst /\ START = END /\ IsIntLit(END) /\ END.whole >= 0)
    => /\ inst[cur] = { END }
       /\ END = IntLit(0) => steps = 0

C18_Witness ==
    /\ pc = "next"
    /\ cur \in DOMAIN inst
    /\ START = IntLit(3)
    /\ END = IntLit(3)
    /\ steps = 3
    /\ inst[cur] = { IntLit(3) }

\* the span of a documented range
DocSpan(d) == Tenths(d.hi) - Tenths(d.lo)

C20_CodesDisjointAcrossEnums ==
    (pc = "checked" /\ expr.kind = "member") =>
        \A e \in EnumNames \ { expr.enum } :
            CodeOf(expr.enum, expr.name) \notin Codes(e)

C20_Witness ==
    /\ pc = "checked"
    /\ expr = Member("LayerQuality", "WIREFRAME")
    /\ target = "LayerSamplingQuality"
    /\ verdict = "rejected"
    /\ ~Assignable(Literal(IntLit(CodeOf("LayerQuality", "WIREFRAME"))), target, inst)

\* C11: every layer class derives from Layer through an acyclic extends
\* chain of at most 2 heritage clauses, so a member Layer declares is found
\* on an object of every layer class, and a member a layer class redeclares
\* (TextLayer.source: null over AVLayer.source: any) keeps a type assignable
\* to the one it hides.
C11_LayerMembersOnEveryLayerClass ==
    /\ (pc \in { "lookup", "checked" } /\ recv \in LayerClasses /\ owner = "Layer")
          => hops <= 2
    /\ (pc \in { "lookup", "checked" } /\ hops > 0) => owner # recv
    /\ (pc = "checked" /\ recv \in LayerClasses /\ access = "read"
          /\ Declares("Layer", member))
          => /\ verdict = "accepted"
             /\ owner \in LayerClasses
             /\ Derives(recv, owner) /\ Derives(owner, "Layer")
    /\ (pc = "checked" /\ recv \in LayerClasses /\ access = "redeclare")
          => verdict = "accepted"

C11_Witness ==
    /\ pc = "checked"
    /\ recv = "ShapeLayer"
    /\ access = "read"
    /\ member = "autoOrient"
    /\ owner = "Layer"
    /\ hops = 2
    /\ verdict = "accepted"

\* the classes whose documentation names the method creating them
CreatedClasses == { c \in ClassNames : ClassNamed(c).creator # "" }

\* C12: the LayerCollection method that the documentation of CameraLayer,
\* LightLayer, ShapeLayer and TextLayer names as creating the class is
\* declared by LayerCollection and returns exactly that class; add, addNull
\* and addSolid return AVLayer, and the box and vertical text methods
\* return TextLayer.
C12_CreatorsReturnTheirClass ==
    (pc = "checked" /\ recv = "LayerCollection" /\ access = "read") =>
        /\ CreatedClasses = { "CameraLayer", "LightLayer", "ShapeLayer", "TextLayer" }
        /\ \A c \in CreatedClasses : Declares("LayerCollection", ClassNamed(c).creator)
        /\ \A c \in CreatedClasses :
              member = ClassNamed(c).creator =>
                  /\ verdict = "accepted"
                  /\ owner = "LayerCollection"
                  /\ MemberOf(owner, member).kind = "method"
                  /\ memberType = c
        /\ member \in { "add", "addNull", "addSolid" } =>
              verdict = "accepted" /\ memberType = "AVLayer"
        /\ member \in { "addVerticalBoxText", "addVerticalText", "addBoxText" } =>
              verdict = "accepted" /\ memberType = "TextLayer"

C12_Witness ==
    /\ pc = "checked"
    /\ recv = "LayerCollection"
    /\ access = "read"
    /\ member = "addShape"
    /\ verdict = "accepted"
    /\ memberType = "ShapeLayer"

\* the classes whose attributes C16 is about
ReadonlyDocumentedClasses ==
    { "Layer", "AVLayer", "CameraLayer", "LightLayer", "TextLayer", "LayerCollection" }

\* C16: on Layer, AVLayer, CameraLayer, LightLayer, TextLayer and
\* LayerCollection an assignment to an attribute is refused exactly when the
\* attribute's documentation carries @readonly: every @readonly attribute is
\* declared readonly, every other attribute is declared writable.
C16_ReadonlyExactlyWhenDocumented ==
    (pc = "checked" /\ access = "write" /\ owner \in ReadonlyDocumentedClasses
        /\ Declares(owner, member) /\ MemberOf(owner, member).kind # "method")
    => /\ (verdict = "rejected") <=> MemberOf(owner, member).tag
       /\ MemberOf(owner, member).readonly <=> MemberOf(owner, member).tag

C16_Witness ==
    /\ pc = "checked"
    /\ access = "write"
    /\ recv = "TextLayer"
    /\ member = "text"
    /\ owner = "TextLayer"
    /\ MemberOf(owner, member).tag
    /\ verdict = "rejected"

\* C21: with reversed bounds START > END >= 0 the instantiation is not
\* abandoned and is not empty: it stops when the length of ARR reaches END
\* and the result is exactly {START, END}, with nothing between them.
C21_ReversedBoundsGiveEndpoints ==
    /\ (Lt(END, START) /\ IsIntLit(END) /\ END.whole >= 0) => pc # "too_deep"
    /\ (pc = "next" /\ cur \in DOMAIN inst /\ Lt(END, START)
          /\ IsIntLit(END) /\ END.whole >= 0)
          => /\ Len(ARR) = END.whole
             /\ inst[cur] = { START, END }
             /\ \A v \in inst[cur] : ~(Lt(END, v) /\ Lt(v, START))

C21_Witness ==
    /\ pc = "next"
    /\ cur \in DOMAIN inst
    /\ START = IntLit(4)
    /\ END = IntLit(2)
    /\ Len(ARR) = 2
    /\ inst[cur] = { IntLit(4), IntLit(2) }

\* C22: the number of recursive steps of a finished instantiation equals
\* END whatever START is, because the counter is the length of ARR and
\* starts from the empty tuple: NumericRange<3, 4> takes the 4 steps that
\* NumericRange<0, 4> takes.
C22_StepsEqualEND ==
    /\ pc = "eval" => Len(ARR) = steps
    /\ (pc = "eval" /\ steps = 0) => ARR = << >>
    /\ (pc = "next" /\ cur \in DOMAIN inst) => IntLit(steps) = END

C22_Witness ==
    /\ pc = "next"
    /\ cur \in DOMAIN inst
    /\ START = IntLit(3)
    /\ END = IntLit(4)
    /\ steps = 4

\* C23: when END is negative or not an integer, the length of ARR never
\* equals END: the stopping branch is never taken and no result is ever
\* recorded for the instantiation.
C23_BadENDNeverStops ==
    (~IsIntLit(END) \/ END.whole < 0) =>
        /\ pc \in { "eval", "too_deep" }
        /\ ~LengthExtendsEND(ARR, END)
        /\ cur \notin DOMAIN inst

C23_Witness ==
    /\ pc = "too_deep"
    /\ END = Num(1, 5)
    /\ START = IntLit(0)
    /\ steps = MaxInstantiationDepth
    /\ cur \notin DOMAIN inst

\* C24: at every step of an instantiation with 0 <= START <= END the
\* counter is the length of ARR, one more per step, and ACC is the set of
\* the integers k with START < k < counter; so ACC holds nothing at or below
\* START nor at or above END, and the endpoints enter only in the result of
\* the stopping branch.
C24_AccumulatorIsOpenInterval ==
    /\ [](( pc = "eval" /\ IsIntLit(START) /\ IsIntLit(END)
            /\ 0 <= START.whole /\ START.whole <= END.whole)
          => /\ Len(ARR) = steps
             /\ Len(ARR) <= END.whole
             /\ ACC = IntLits(START.whole + 1, Len(ARR) - 1)
             /\ \A v \in ACC : Lt(START, v) /\ Lt(v, END))
    /\ [][(pc = "eval" /\ steps' # steps) => Len(ARR') = Len(ARR) + 1]_vars
    /\ [][( pc = "eval" /\ pc' = "next" /\ IsIntLit(START) /\ IsIntLit(END)
            /\ 0 <= START.whole /\ START.whole <= END.whole)
          => inst'[cur] = ACC \cup { START, END }]_vars

C24_Witness ==
    /\ pc = "eval"
    /\ START = IntLit(1)
    /\ END = IntLit(4)
    /\ Len(ARR) = 4
    /\ ACC = { IntLit(2), IntLit(3) }

TransformShortcuts ==
    { "anchorPoint", "position", "xPosition", "yPosition", "zPosition", "scale",
      "orientation", "rotation", "xRotation", "yRotation", "zRotation", "opacity",
      "pointOfInterest" }

\* C26: every attribute of _TransformGroup is also declared directly on
\* Layer, readonly, under the same name and with the same property type;
\* Layer declares no property-typed shortcut that _TransformGroup lacks; and
\* TextLayer.sourceText has the type of _TextProperties.sourceText.
C26_ShortcutsMirrorTheGroups ==
    /\ (pc = "checked" /\ access = "read" /\ recv = "_TransformGroup"
          /\ owner = recv /\ Declares(owner, member))
          => /\ member \in TransformShortcuts
             /\ Declares("Layer", member)
             /\ MemberOf("Layer", member).kind = "attribute"
             /\ MemberOf("Layer", member).readonly
             /\ MemberOf("Layer", member).type = memberType
    /\ (pc = "checked" /\ access = "read" /\ recv = "Layer" /\ owner = recv
          /\ Declares(owner, member)
          /\ (memberType \in PropertyTypes \/ member \in TransformShortcuts))
          => /\ Declares("_TransformGroup", member)
             /\ MemberOf("_TransformGroup", member).type = memberType
             /\ MemberOf("Layer", "transform").type = "_TransformGroup"
    /\ (pc = "checked" /\ access = "read" /\ member \in TransformShortcuts)
          => (verdict = "accepted" <=> (recv = "_TransformGroup" \/ recv \in LayerClasses))
    /\ (pc = "checked" /\ access = "read" /\ recv = "TextLayer" /\ member = "sourceText")
          => /\ owner = "TextLayer"
             /\ memberType = MemberOf("_TextProperties", "sourceText").type
             /\ MemberOf("TextLayer", "text").type = "_TextProperties"

C26_Witness ==
    /\ pc = "checked"
    /\ access = "read"
    /\ recv = "_TransformGroup"
    /\ member = "orientation"
    /\ memberType = "ThreeDProperty"
    /\ MemberOf("Layer", member).type = memberType
    /\ verdict = "accepted"

\* the attributes the documentation marks "(3D layers only)"
ThreeDOnly ==
    { "zPosition", "orientation", "xRotation", "yRotation", "zRotation",
      "pointOfInterest" }

\* C27: no declaration relates one attribute to another or to the layer's
\* state.  A layer is accepted as parent whether it is the layer itself or
\* a layer of another composition; an inPoint is accepted together with any
\* smaller outPoint; the 3D-only attributes are found on every layer class,
\* declared on Layer, which does not even declare threeDLayer.
C27_NoCrossAttributeConstraint ==
    /\ (pc = "checked" /\ expr.kind = "layer"
          /\ site \in { "Layer.parent", "Layer.setParentWithJump(newParent)" })
          => /\ verdict = "accepted"
             /\ \A r \in Relations :
                   Verdict(LayerRef(expr.class, r), target, inst) = verdict
    /\ (pc = "checked" /\ site = "Layer.inPoint" /\ expr.kind = "branded"
          /\ expr.brand = "TimeRange")
          => /\ verdict = "accepted"
             /\ \A w \in AroundBrand(TimeRange) :
                   Lt(w, expr.value) =>
                      Verdict(Branded("TimeRange", w),
                              SiteNamed("Layer.outPoint").type, inst) = "accepted"
    /\ (pc = "checked" /\ access = "read" /\ recv \in LayerClasses
          /\ member \in ThreeDOnly)
          => /\ verdict = "accepted"
             /\ owner = "Layer"
             /\ ~Declares(owner, "threeDLayer")
             /\ Declares("AVLayer", "threeDLayer")

C27_Witness ==
    /\ pc = "checked"
    /\ site = "Layer.parent"
    /\ target = "Layer | null"
    /\ expr = LayerRef("CameraLayer", "itself")
    /\ verdict = "accepted"

====
